---- MODULE Spec2Model ----
(***************************************************************************)
(* Model of Solver.py: solve_production_problem(demand, line_capacity,     *)
(* production_rate).  The three arguments are caller-owned dictionaries    *)
(* that the function extends in place, so they are the state that lives    *)
(* across invocations; the three returned tables are the state a caller    *)
(* observes.  One action models one whole invocation.                      *)
(*                                                                         *)
(* Numbers are exact rationals <<n, d>> (d > 0, lowest terms); the         *)
(* capacity float("inf") is the value Inf and numpy's nan is NaN.          *)
(***************************************************************************)
EXTENDS Integers, Sequences, FiniteSets, TLC

(***************************************************************************)
(* Exact rational arithmetic.                                              *)
(***************************************************************************)
RECURSIVE GCD(_, _)
GCD(a, b) == IF b = 0 THEN a ELSE GCD(b, a % b)

Abs(n) == IF n < 0 THEN 0 - n ELSE n

R(n, d) ==
  LET g == GCD(Abs(n), d)
  IN  IF n = 0 THEN <<0, 1>> ELSE <<n \div g, d \div g>>

Zero == R(0, 1)

\* the sums and products cancel common factors first, to keep the integers small
Add(a, b) ==
  LET g == GCD(a[2], b[2])
  IN  R(a[1] * (b[2] \div g) + b[1] * (a[2] \div g), (a[2] \div g) * b[2])
Neg(a) == <<0 - a[1], a[2]>>
Sub(a, b) == Add(a, Neg(b))
Mul(a, b) ==
  LET g == GCD(Abs(a[1]), b[2])
      h == GCD(Abs(b[1]), a[2])
  IN  IF a[1] = 0 \/ b[1] = 0 THEN <<0, 1>>
      ELSE <<(a[1] \div g) * (b[1] \div h), (a[2] \div h) * (b[2] \div g)>>
\* a / b for b > 0
Div(a, b) == Mul(a, <<b[2], b[1]>>)
Leq(a, b) ==
  LET g == GCD(a[2], b[2])
  IN  a[1] * (b[2] \div g) <= b[1] * (a[2] \div g)
Lt(a, b) == ~Leq(b, a)
Pos(a) == a[1] > 0

\* float("inf"), kept apart from every rational by its zero denominator, and
\* numpy.nan as a Capacity/Demand value
Inf == <<1, 0>>
NaN == [nan |-> TRUE, capacity |-> <<0, 0>>, total_demand_hours |-> <<0, 0>>]

\* x <= c where c may be float("inf")
LeqCap(x, c) == IF c = Inf THEN TRUE ELSE Leq(x, c)
\* min(c, x) where c may be float("inf")
MinCap(c, x) == IF c = Inf THEN x ELSE IF Leq(c, x) THEN c ELSE x
\* c - x where c may be float("inf")
SubCap(c, x) == IF c = Inf THEN Inf ELSE Sub(c, x)

RECURSIVE SumOver(_, _)
\* sum of the rationals f[k] over the finite set S of keys
SumOver(f, S) ==
  IF S = {} THEN Zero
  ELSE LET k == CHOOSE e \in S : TRUE
       IN  Add(f[k], SumOver(f, S \ {k}))

RECURSIVE SeqSum(_)
\* sum of a sequence of rationals
SeqSum(s) == IF s = <<>> THEN Zero ELSE Add(Head(s), SeqSum(Tail(s)))

RECURSIVE SeqCat(_)
\* concatenation of a sequence of sequences
SeqCat(ss) == IF ss = <<>> THEN <<>> ELSE Head(ss) \o SeqCat(Tail(ss))

RECURSIVE Perms(_)
\* every ordering of the finite set S, as sequences
Perms(S) ==
  IF S = {} THEN {<<>>}
  ELSE UNION {{<<e>> \o s : s \in Perms(S \ {e})} : e \in S}

Range(s) == {s[i] : i \in DOMAIN s}

\* dict.get(k, default)
Get(f, k, default) == IF k \in DOMAIN f THEN f[k] ELSE default

(***************************************************************************)
(* Bounds of the model: the names that may occur in the caller's           *)
(* dictionaries, the values they may carry, and the number of invocations  *)
(* made on the same dictionary objects.                                    *)
(***************************************************************************)
PeriodU == {"P1"}
CategoryU == {"Choc"}
ProductU == {"A", "B"}
LineU == {"L1", "L2"}
\* a second category, whose entries the caller states together or not at all
OtherCategoryEntries ==
  [demand |-> (<<"P1", "Gum", "A">> :> R(50, 1)),
   line_capacity |-> (<<"P1", "Gum", "L1">> :> R(10, 1)),
   production_rate |-> (<<"P1", "Gum", "L1", "A">> :> R(5, 1))]
NoEntries == [demand |-> <<>>, line_capacity |-> <<>>, production_rate |-> <<>>]
\* the demands the caller may state for a product
DemandVals ==
  ("A" :> {R(50, 1), R(100, 1)}) @@ ("B" :> {R(50, 1)})
\* the hours the caller may state for a line
CapVals == {R(0, 1), R(10, 1)}
\* the (line, product) pairs the caller may state a rate for, and the rates
RateVals ==
  (<<"L1", "A">> :> {R(5, 1), R(5000, 1)}) @@ (<<"L1", "B">> :> {R(5, 1)})
  @@ (<<"L2", "A">> :> {R(0, 1), R(5, 1)})
MaxCalls == 2

\* Python's sorted() on the names above (string order)
PeriodOrder == <<"P1">>
CategoryOrder == <<"Choc", "Gum">>
ProductOrder == <<"A", "B">>
LineOrder == <<"Fallback_Line", "L1", "L2">>

RECURSIVE SortedBy(_, _)
\* sorted(list(set(...))): the members of S in the order of `order`
SortedBy(S, order) ==
  IF order = <<>> THEN <<>>
  ELSE (IF Head(order) \in S THEN <<Head(order)>> ELSE <<>>)
       \o SortedBy(S, Tail(order))

\* every dictionary with keys in K whose value at k is in V(k)
Dicts(K, V(_)) ==
  UNION {{f \in [D -> UNION {V(k) : k \in D}] : \A k \in D : f[k] \in V(k)} : D \in SUBSET K}

DemandKeys == PeriodU \X CategoryU \X ProductU
CapacityKeys == PeriodU \X CategoryU \X LineU
RateKeys == {<<p, c, cell[1], cell[2]>> : p \in PeriodU, c \in CategoryU, cell \in DOMAIN RateVals}

\* the arguments a caller may pass: non-negative finite values, some demand
Inputs ==
  LET all == {[demand |-> d @@ x.demand, line_capacity |-> lc @@ x.line_capacity,
               production_rate |-> pr @@ x.production_rate] :
                d \in Dicts(DemandKeys, LAMBDA k : DemandVals[k[3]]),
                lc \in Dicts(CapacityKeys, LAMBDA k : CapVals),
                pr \in Dicts(RateKeys, LAMBDA k : RateVals[<<k[3], k[4]>>]),
                x \in {NoEntries, OtherCategoryEntries}}
  IN  {i \in all : DOMAIN i.demand # {}}

VARIABLES
  demand,                    \* caller's dict (Period, Category, Product) -> Kg
  line_capacity,             \* caller's dict (Period, Category, Line) -> hours
  production_rate,           \* caller's dict (Period, Category, Line, Product) -> Kg/h
  model,                     \* the Pyomo model last built, with the solved X
  results_df,                \* third return value: rows before redistribution
  adjusted_rows,             \* rows the redistribution loop appended
  results_df_adjusted,       \* first return value: aggregated rows
  capacity_demand_ratio_df,  \* second return value
  status,                    \* last invocation: "none", "returned", "raised" (the
                             \* model was rejected) or "infeasible" (the solver failed)
  passed,                    \* the dictionaries as the last invocation received them
  calls,                     \* invocations made so far
  returns,                   \* what each returning invocation returned, in order
  given                      \* the dictionaries as the caller first built them

vars == <<demand, line_capacity, production_rate, model, results_df, adjusted_rows,
          results_df_adjusted, capacity_demand_ratio_df, status, passed, calls,
          returns, given>>

(***************************************************************************)
(* Index sets (lines 26-29) and the fallback line (lines 31-37).           *)
(***************************************************************************)
Periods(d) == SortedBy({k[1] : k \in DOMAIN d}, PeriodOrder)
Categories(d) == SortedBy({k[2] : k \in DOMAIN d}, CategoryOrder)
Products(d) == SortedBy({k[3] : k \in DOMAIN d}, ProductOrder)
\* Lines after line 37: sorted names of line_capacity as passed, then the fallback
Lines(lc) == SortedBy({k[3] : k \in DOMAIN lc}, LineOrder) \o <<"Fallback_Line">>

fictitious_line == "Fallback_Line"
fallback_rate == R(1, 100)

\* as AugmentRate, but the rate of every line for a demanded product is set to
\* the fallback rate
AugmentRate_every_line(d, pr) ==
  LET added == {<<k[1], k[2], fictitious_line, k[3]>> : k \in DOMAIN d}
  IN  [k \in DOMAIN pr \cup added |->
         IF <<k[1], k[2], k[4]>> \in DOMAIN d THEN fallback_rate ELSE pr[k]]

\* production_rate after the loop of lines 33-34
AugmentRate(d, pr) ==
  LET added == {<<k[1], k[2], fictitious_line, k[3]>> : k \in DOMAIN d}
  IN  [k \in DOMAIN pr \cup added |-> IF k \in added THEN fallback_rate ELSE pr[k]]

\* as AugmentCapacity, but the fallback line is given no hours
AugmentCapacity_zero(d, lc) ==
  LET added == {<<k[1], k[2], fictitious_line>> : k \in DOMAIN d}
  IN  [k \in DOMAIN lc \cup added |-> IF k \in added THEN Zero ELSE lc[k]]

\* line_capacity after the loop of lines 35-36
AugmentCapacity(d, lc) ==
  LET added == {<<k[1], k[2], fictitious_line>> : k \in DOMAIN d}
  IN  [k \in DOMAIN lc \cup added |-> IF k \in added THEN Inf ELSE lc[k]]

(***************************************************************************)
(* The Pyomo model (lines 39-59).  A model m carries the four index sets   *)
(* (Pyomo Sets: duplicates of the initialising list are dropped) and the   *)
(* dictionaries the rules close over; X is an assignment of hours to       *)
(* every (period, category, line, product) of the index sets.              *)
(***************************************************************************)
BuildModel(d, lc, pr, lines) ==
  [PERIODS |-> Range(Periods(d)), CATEGORIES |-> Range(Categories(d)),
   PRODUCTS |-> Range(Products(d)), LINES |-> Range(lines),
   demand |-> d, line_capacity |-> lc, production_rate |-> pr]

XIndex(m) == m.PERIODS \X m.CATEGORIES \X m.LINES \X m.PRODUCTS

\* the products the capacity rule of (p, c, l) sums over (line 53)
RatedProducts(m, p, c, l) ==
  {prod \in m.PRODUCTS : <<p, c, l, prod>> \in DOMAIN m.production_rate}

\* line 49: production_rate.get((p, c, l, prod), 0)
rate_of(m, p, c, l, prod) == Get(m.production_rate, <<p, c, l, prod>>, Zero)

\* lines 48-49
demand_rule(m, X, p, c, prod) ==
  Leq(Get(m.demand, <<p, c, prod>>, Zero),
      SumOver([l \in m.LINES |-> Mul(X[<<p, c, l, prod>>], rate_of(m, p, c, l, prod))],
              m.LINES))

\* as capacity_of, but every line is given the hours of all lines of the
\* (period, category) together
capacity_of_all_lines(m, p, c, l) ==
  IF Get(m.line_capacity, <<p, c, l>>, Zero) = Inf THEN Inf
  ELSE SumOver([k \in {i \in DOMAIN m.line_capacity :
                         i[1] = p /\ i[2] = c /\ m.line_capacity[i] # Inf} |->
                  m.line_capacity[k]],
               {i \in DOMAIN m.line_capacity :
                  i[1] = p /\ i[2] = c /\ m.line_capacity[i] # Inf})

\* line 53: line_capacity.get((p, c, l), 0)
capacity_of(m, p, c, l) == Get(m.line_capacity, <<p, c, l>>, Zero)

\* lines 52-53
capacity_rule(m, X, p, c, l) ==
  LeqCap(SumOver([prod \in RatedProducts(m, p, c, l) |-> X[<<p, c, l, prod>>]],
                 RatedProducts(m, p, c, l)),
         capacity_of(m, p, c, l))

\* as Objective, but the hours of the fallback line are not counted
Objective_real_lines(m, X) ==
  SumOver(X, {k \in XIndex(m) : k[3] # "Fallback_Line"})

\* lines 56-59
Objective(m, X) == SumOver(X, XIndex(m))

\* X satisfies DemandConstraint, CapacityConstraint and the variable domain
Feasible(m, X) ==
  /\ \A k \in XIndex(m) : Leq(Zero, X[k])
  /\ \A p \in m.PERIODS, c \in m.CATEGORIES, prod \in m.PRODUCTS : demand_rule(m, X, p, c, prod)
  /\ \A p \in m.PERIODS, c \in m.CATEGORIES, l \in m.LINES : capacity_rule(m, X, p, c, l)

\* A rule whose sum has no term returns a Python bool, which Pyomo's Constraint
\* rejects with a ValueError (line 54): a line with no rate entry for any product.
TrivialConstraint(m) ==
  \E p \in m.PERIODS, c \in m.CATEGORIES, l \in m.LINES : RatedProducts(m, p, c, l) = {}

\* A (period, category, product) of the index sets for which no line has a rate
\* other than 0: every term of the sum of line 49 is a variable times 0.  Pyomo
\* may reduce such a product to the number 0, and the rule then returns a
\* Python bool as above, or keep it as an expression, and the constraint is
\* built; which of the two depends on the Pyomo release in use.
ZeroDemandRule(m) ==
  \E p \in m.PERIODS, c \in m.CATEGORIES, prod \in m.PRODUCTS :
    \A l \in m.LINES : rate_of(m, p, c, l, prod) = Zero

(***************************************************************************)
(* The solver (lines 62-63) returns an optimal basic solution of the       *)
(* linear program.  BasicSolutions enumerates, for each (period, category) *)
(* block, the assignments obtained by serving (line, product) pairs of     *)
(* positive rate one after the other, each taking as much of the           *)
(* remaining demand of its product as its line has hours left for: some    *)
(* of the pairs on lines of finite capacity in some order, then the pairs  *)
(* on lines of unbounded capacity.  Optimal keeps the assignments that     *)
(* satisfy the constraints at the least objective value.                   *)
(***************************************************************************)
Cells(m, p, c) ==
  {cell \in m.LINES \X m.PRODUCTS : Pos(rate_of(m, p, c, cell[1], cell[2]))}

RECURSIVE Fill(_, _, _, _, _)
Fill(m, p, c, order, st) ==
  IF order = <<>> THEN st.x
  ELSE LET l == Head(order)[1]
           prod == Head(order)[2]
           rate == rate_of(m, p, c, l, prod)
           amt == MinCap(st.cap[l], Div(st.dem[prod], rate))
       IN  Fill(m, p, c, Tail(order),
                [cap |-> [st.cap EXCEPT ![l] = SubCap(@, amt)],
                 dem |-> [st.dem EXCEPT ![prod] = Sub(@, Mul(amt, rate))],
                 x |-> [st.x EXCEPT ![<<l, prod>>] = amt]])

Orders(m, p, c) ==
  LET capped == {cell \in Cells(m, p, c) : capacity_of(m, p, c, cell[1]) # Inf}
  IN  {s \o t : s \in UNION {Perms(S) : S \in SUBSET capped},
                t \in Perms(Cells(m, p, c) \ capped)}

BlockSolutions(m, p, c) ==
  LET st0 == [cap |-> [l \in m.LINES |-> capacity_of(m, p, c, l)],
              dem |-> [prod \in m.PRODUCTS |-> Get(m.demand, <<p, c, prod>>, Zero)],
              x |-> [cell \in m.LINES \X m.PRODUCTS |-> Zero]]
  IN  {Fill(m, p, c, order, st0) : order \in Orders(m, p, c)}

BasicSolutions(m) ==
  LET blocks == m.PERIODS \X m.CATEGORIES
      sols == [b \in blocks |-> BlockSolutions(m, b[1], b[2])]
  IN  {[k \in XIndex(m) |-> ch[<<k[1], k[2]>>][<<k[3], k[4]>>]] :
         ch \in {f \in [blocks -> UNION {sols[b] : b \in blocks}] :
                   \A b \in blocks : f[b] \in sols[b]}}

Optimal(m) ==
  LET feasible == {X \in BasicSolutions(m) : Feasible(m, X)}
      value == [X \in feasible |-> Objective(m, X)]
  IN  {X \in feasible : \A Y \in feasible : Leq(value[X], value[Y])}

(***************************************************************************)
(* Result extraction (lines 66-76): the loops run over the Python lists,   *)
(* so a line named twice in Lines is visited twice.                        *)
(***************************************************************************)
Row(p, c, l, prod, hours, kgs) ==
  [Period |-> p, Category |-> c, Line |-> l, Product |-> prod,
   Hours |-> hours, Kg_Produced |-> kgs]

\* as ExtractRow, but the hours of the fallback line give no row
ExtractRow_real_lines(m, X, p, c, l, prod) ==
  LET val == X[<<p, c, l, prod>>]
  IN  IF Pos(val) /\ l # "Fallback_Line"
      THEN <<Row(p, c, l, prod, val, Mul(val, rate_of(m, p, c, l, prod)))>>
      ELSE <<>>

\* lines 71-74
ExtractRow(m, X, p, c, l, prod) ==
  LET val == X[<<p, c, l, prod>>]
  IN  IF Pos(val)
      THEN <<Row(p, c, l, prod, val, Mul(val, rate_of(m, p, c, l, prod)))>>
      ELSE <<>>

ExtractResults(m, X, ps, cs, ls, prods) ==
  SeqCat([i \in DOMAIN ps |->
    SeqCat([j \in DOMAIN cs |->
      SeqCat([k \in DOMAIN ls |->
        SeqCat([n \in DOMAIN prods |->
          ExtractRow(m, X, ps[i], cs[j], ls[k], prods[n])])])])])

(***************************************************************************)
(* Redistribution of the fallback rows (lines 78-107).                     *)
(***************************************************************************)
fallback_name == "Fallback_Line"

SelectRows(df, Test(_)) == SelectSeq(df, Test)

fallback_rows(df) == SelectRows(df, LAMBDA row : row.Line = fallback_name)
non_fallback_rows(df) == SelectRows(df, LAMBDA row : row.Line # fallback_name)

\* as eligible_lines, but the fallback line is not left out
eligible_lines_any(pr, lines, p, c, prod) ==
  SelectSeq(lines, LAMBDA l : <<p, c, l, prod>> \in DOMAIN pr)

\* lines 89-91
eligible_lines(pr, lines, p, c, prod) ==
  SelectSeq(lines, LAMBDA l : <<p, c, l, prod>> \in DOMAIN pr /\ l # fallback_name)

\* lines 95-107, for one fallback row
Redistribute(pr, lines, row) ==
  LET p == row.Period
      c == row.Category
      prod == row.Product
      total_kgs == row.Kg_Produced
      eligible == eligible_lines(pr, lines, p, c, prod)
      equal_kgs == Div(total_kgs, R(Len(eligible), 1))
  IN  IF eligible = <<>> THEN <<>>
      ELSE SeqCat([i \in DOMAIN eligible |->
             LET rate == pr[<<p, c, eligible[i], prod>>]
             IN  IF Pos(rate)
                 THEN <<Row(p, c, eligible[i], prod, Div(equal_kgs, rate), equal_kgs)>>
                 ELSE <<>>])

\* lines 83-107
AdjustedRows(pr, lines, df) ==
  LET fb == fallback_rows(df)
  IN  SeqCat([i \in DOMAIN fb |-> Redistribute(pr, lines, fb[i])])

RowKey(row) == <<row.Period, row.Category, row.Line, row.Product>>

\* as Aggregate, but a key keeps its first row instead of the sum of its rows
Aggregate_first(df) ==
  {LET rows == SelectSeq(df, LAMBDA row : RowKey(row) = k)
   IN  rows[1] :
     k \in {RowKey(df[i]) : i \in DOMAIN df}}

\* lines 109-114: concat, then groupby(...).sum(); one row per key
Aggregate(df) ==
  {LET rows == SelectSeq(df, LAMBDA row : RowKey(row) = k)
   IN  Row(k[1], k[2], k[3], k[4],
           SeqSum([i \in DOMAIN rows |-> rows[i].Hours]),
           SeqSum([i \in DOMAIN rows |-> rows[i].Kg_Produced])) :
     k \in {RowKey(df[i]) : i \in DOMAIN df}}

(***************************************************************************)
(* Capacity/Demand ratios (lines 116-137).  A ratio that is not nan is     *)
(* kept as the pair of its capacity and its total_demand_hours: its value  *)
(* is capacity / (total_demand_hours + 1e-9), so it is finite when the     *)
(* capacity is, and has the sign of the capacity.                          *)
(***************************************************************************)
\* lines 118-132
total_demand_hours(pr, df, p, c, l) ==
  LET line_production == {row \in df : row.Period = p /\ row.Line = l}
      hours == [row \in line_production |->
                  LET rate == Get(pr, <<p, c, l, row.Product>>, Zero)
                  IN  IF Pos(rate) THEN Div(row.Kg_Produced, rate) ELSE Zero]
  IN  SumOver(hours, line_production)

\* as Ratio, but without the test for zero hours
Ratio_unguarded(capacity, hours) ==
  [nan |-> FALSE, capacity |-> capacity, total_demand_hours |-> hours]

\* line 134
Ratio(capacity, hours) ==
  IF Pos(hours)
  THEN [nan |-> FALSE, capacity |-> capacity, total_demand_hours |-> hours]
  ELSE NaN

\* lines 116-137
CapacityDemand(lc, pr, df) ==
  {[Period |-> k[1], Category |-> k[2], Line |-> k[3],
    Capacity_Demand |-> Ratio(lc[k], total_demand_hours(pr, df, k[1], k[2], k[3]))] :
     k \in DOMAIN lc}

(***************************************************************************)
(* solve_production_problem (lines 6-139) as one step on the dictionaries  *)
(* d, lc, pr it is passed.  The solver is deterministic: asked again for   *)
(* the model it solved last, it returns the assignment it returned then.   *)
(***************************************************************************)
NoModel ==
  [built |-> FALSE, X |-> <<>>,
   m |-> [PERIODS |-> {}, CATEGORIES |-> {}, PRODUCTS |-> {}, LINES |-> {},
          demand |-> <<>>, line_capacity |-> <<>>, production_rate |-> <<>>]]

Solve(m) == IF model.built /\ model.m = m THEN {model.X} ELSE Optimal(m)

Invoke(d, lc0, pr0) ==
  LET lines == Lines(lc0)
      pr == AugmentRate(d, pr0)
      lc == AugmentCapacity(d, lc0)
      m == BuildModel(d, lc, pr, lines)
  IN  /\ demand' = d
      /\ production_rate' = pr
      /\ line_capacity' = lc
      /\ calls' = calls + 1
      /\ passed' = [demand |-> d, line_capacity |-> lc0, production_rate |-> pr0]
      /\ \E reduced \in {ZeroDemandRule(m), FALSE} :
         IF TrivialConstraint(m) \/ reduced
         THEN /\ status' = "raised"
              /\ UNCHANGED <<model, results_df, adjusted_rows, results_df_adjusted,
                             capacity_demand_ratio_df, returns>>
         ELSE IF Solve(m) = {}
         THEN /\ status' = "infeasible"
              /\ UNCHANGED <<model, results_df, adjusted_rows, results_df_adjusted,
                             capacity_demand_ratio_df, returns>>
         ELSE \E X \in Solve(m) :
                LET df == ExtractResults(m, X, Periods(d), Categories(d), lines, Products(d))
                    adjusted == AdjustedRows(pr, lines, df)
                    final == Aggregate(non_fallback_rows(df) \o adjusted)
                    ratios == CapacityDemand(lc, pr, final)
                IN  /\ status' = "returned"
                    /\ model' = [built |-> TRUE, X |-> X, m |-> m]
                    /\ results_df' = df
                    /\ adjusted_rows' = adjusted
                    /\ results_df_adjusted' = final
                    /\ capacity_demand_ratio_df' = ratios
                    /\ returns' = Append(returns,
                         [AllocationTable |-> final, UtilizationTable |-> ratios,
                          RawAllocationTable |-> df, passed |-> passed'])

\* The caller: it passes the dictionaries it holds (Solver.py line 158; kept
\* across invocations they are the objects the previous invocation extended),
\* or it builds them anew for the run (app.py lines 379-386).
Call ==
  /\ calls < MaxCalls
  /\ \E args \in {[demand |-> demand, line_capacity |-> line_capacity,
                   production_rate |-> production_rate], given} :
       Invoke(args.demand, args.line_capacity, args.production_rate)
  /\ UNCHANGED given

Init ==
  /\ given \in Inputs
  /\ demand = given.demand
  /\ line_capacity = given.line_capacity
  /\ production_rate = given.production_rate
  /\ model = NoModel
  /\ results_df = <<>>
  /\ adjusted_rows = <<>>
  /\ results_df_adjusted = {}
  /\ capacity_demand_ratio_df = {}
  /\ status = "none"
  /\ passed = given
  /\ calls = 0
  /\ returns = <<>>

Next == Call

Spec == Init /\ [][Next]_vars

(***************************************************************************)
(* Properties.                                                             *)
(***************************************************************************)
Returned == status = "returned"

\* the (period, category, line) keys with a capacity stated by the caller
StatedKeys == {k \in DOMAIN passed.line_capacity : k[3] # fallback_name}

\* sum of a column of the rows of a table (a sequence) that satisfy Test
ColumnSum(df, Test(_), Column(_)) ==
  LET rows == SelectSeq(df, Test)
  IN  SeqSum([i \in DOMAIN rows |-> Column(rows[i])])

\* sum of a column of the rows of an aggregated table (a set) that satisfy Test
SetColumnSum(df, Test(_), Column(_)) ==
  LET rows == {row \in df : Test(row)}
  IN  SumOver([row \in rows |-> Column(row)], rows)

OnLine(row, k) == row.Period = k[1] /\ row.Category = k[2] /\ row.Line = k[3]

FinalHours(k) ==
  SetColumnSum(results_df_adjusted, LAMBDA row : OnLine(row, k), LAMBDA row : row.Hours)
RawHours(k) == ColumnSum(results_df, LAMBDA row : OnLine(row, k), LAMBDA row : row.Hours)
AddedHours(k) == ColumnSum(adjusted_rows, LAMBDA row : OnLine(row, k), LAMBDA row : row.Hours)

\* C1 as stated: for every (period, category, line) with a stated capacity, other
\* than the fallback line, the Hours of the final AllocationTable sum to at most
\* the stated capacity.
C1_CapacityRespectFinal ==
  Returned => \A k \in StatedKeys : Leq(FinalHours(k), passed.line_capacity[k])

\* C1 amended: for every such (period, category, line) the Hours of the
\* RawAllocationTable (before redistribution) sum to at most the stated capacity,
\* and the final AllocationTable carries those hours plus the hours the
\* redistribution added to the line.
C1_CapacityRespectRaw ==
  Returned =>
    \A k \in StatedKeys :
      /\ Leq(RawHours(k), passed.line_capacity[k])
      /\ FinalHours(k) = Add(RawHours(k), AddedHours(k))

\* a line filled to its capacity by the solver that the redistribution loads further
C1_Witness ==
  /\ Returned
  /\ \E k \in StatedKeys :
       /\ Pos(RawHours(k))
       /\ Pos(AddedHours(k))
       /\ Lt(passed.line_capacity[k], FinalHours(k))

FallbackHours(X) ==
  SumOver([k \in {i \in DOMAIN X : i[3] = fictitious_line} |-> X[k]],
          {i \in DOMAIN X : i[3] = fictitious_line})

\* some assignment with no hours on the fallback line satisfies every constraint
RealCapacitySuffices ==
  \E X \in BasicSolutions(model.m) :
    Feasible(model.m, X) /\ FallbackHours(X) = Zero

\* C2: when the real lines can cover the whole demand within their capacities,
\* the solution the solver returns puts no hours on the fallback line.
C2_FallbackOnlyWhenInsufficient ==
  Returned => (FallbackHours(model.X) = Zero \/ ~RealCapacitySuffices)

IsFallback(row) == row.Line = fallback_name

\* C3: for every (period, category, product) for which a real line (a line of
\* the capacity mapping) has a rate entry, the mass on the fallback line in the
\* RawAllocationTable equals the mass the redistribution adds to real lines.
C3_MassConserved ==
  Returned =>
    \A key \in DOMAIN demand :
      (\E k \in StatedKeys : <<key[1], key[2], k[3], key[3]>> \in DOMAIN production_rate)
      => ColumnSum(results_df,
                   LAMBDA row : IsFallback(row) /\ <<row.Period, row.Category, row.Product>> = key,
                   LAMBDA row : row.Kg_Produced)
         = ColumnSum(adjusted_rows,
                     LAMBDA row : <<row.Period, row.Category, row.Product>> = key,
                     LAMBDA row : row.Kg_Produced)

\* C4: no AllocationTable an invocation returns has a row on the fallback line.
C4_NoFallbackLeak ==
  /\ \A row \in results_df_adjusted : row.Line # fallback_name
  /\ \A i \in DOMAIN returns : \A row \in returns[i].AllocationTable : row.Line # fallback_name

\* the solver used the fallback line and its mass was moved onto real lines
C4_Witness ==
  /\ Returned
  /\ \E i \in DOMAIN results_df : IsFallback(results_df[i]) /\ Pos(results_df[i].Hours)
  /\ adjusted_rows # <<>>
  /\ results_df_adjusted # {}

\* the model the Model Builder builds from the dictionaries as they now are
CurrentModel == BuildModel(demand, line_capacity, production_rate, Lines(line_capacity))

\* all demand on the fallback line, at the hours its rate needs
FallbackCover(m) ==
  [k \in XIndex(m) |->
     IF k[3] = fictitious_line /\ Pos(rate_of(m, k[1], k[2], k[3], k[4]))
     THEN Div(Get(m.demand, <<k[1], k[2], k[4]>>, Zero), rate_of(m, k[1], k[2], k[3], k[4]))
     ELSE Zero]

\* C5: once the fallback line is added, the constraint system has a non-negative
\* solution (the one that covers every demand on the fallback line), and the
\* solver never finds it infeasible.
C5_AlwaysFeasible ==
  calls > 0 =>
    /\ status # "infeasible"
    /\ Feasible(CurrentModel, FallbackCover(CurrentModel))

\* an invocation solved a model with no real line at all
C5_Witness ==
  /\ Returned
  /\ DOMAIN passed.line_capacity = {}
  /\ Pos(FallbackHours(model.X))

\* C6: any two invocations by the caller (on the same dictionary objects, or on
\* dictionaries rebuilt from the same data) return the same AllocationTable and
\* the same UtilizationTable.
C6_Determinism ==
  \A i, j \in DOMAIN returns :
    /\ returns[i].AllocationTable = returns[j].AllocationTable
    /\ returns[i].UtilizationTable = returns[j].UtilizationTable

\* the final table has production for the period and line of the ratio row r
\* that the rates of r's category convert to hours
HasRealizedHours(r) ==
  \E row \in results_df_adjusted :
    /\ row.Period = r.Period
    /\ row.Line = r.Line
    /\ Pos(row.Kg_Produced)
    /\ Pos(Get(production_rate, <<r.Period, r.Category, r.Line, row.Product>>, Zero))

\* C7 as stated: every Capacity/Demand value is nan, exactly when the line has no
\* realized hours, or finite and strictly positive.
C7_RatioDomain ==
  Returned =>
    \A r \in capacity_demand_ratio_df :
      /\ r.Capacity_Demand.nan <=> ~HasRealizedHours(r)
      /\ ~r.Capacity_Demand.nan =>
           r.Capacity_Demand.capacity # Inf /\ Pos(r.Capacity_Demand.capacity)

\* C7 amended: every Capacity/Demand value is nan, exactly when the line has no
\* realized hours, or finite and non-negative; it is zero only for a line whose
\* stated capacity is zero.
C7_RatioDomainAmended ==
  Returned =>
    \A r \in capacity_demand_ratio_df :
      /\ r.Capacity_Demand.nan <=> ~HasRealizedHours(r)
      /\ ~r.Capacity_Demand.nan =>
           /\ r.Capacity_Demand.capacity # Inf
           /\ Leq(Zero, r.Capacity_Demand.capacity)
           /\ Pos(r.Capacity_Demand.total_demand_hours)
           /\ r.Capacity_Demand.capacity = Zero =>
                Get(passed.line_capacity, <<r.Period, r.Category, r.Line>>, Inf) = Zero

\* a line of zero capacity that the redistribution gave hours: its ratio is 0
C7_Witness ==
  /\ Returned
  /\ \E r \in capacity_demand_ratio_df :
       ~r.Capacity_Demand.nan /\ r.Capacity_Demand.capacity = Zero

C8_Scenario ==
  [demand |-> (<<"P1", "Choc", "A">> :> R(100, 1)),
   line_capacity |-> (<<"P1", "Choc", "L1">> :> R(10, 1)),
   production_rate |-> (<<"P1", "Choc", "L1", "A">> :> R(5, 1))]

\* C8 as stated: in the scenario L1 gets 10 hours and 50 kg, the fallback line
\* covers the other 50 kg, and these 50 kg are a gap: they are not added to L1
\* in the final AllocationTable.
C8_ShortfallIsGap ==
  (Returned /\ passed = C8_Scenario) =>
    /\ results_df = <<Row("P1", "Choc", "L1", "A", R(10, 1), R(50, 1)),
                      Row("P1", "Choc", fallback_name, "A", R(5000, 1), R(50, 1))>>
    /\ results_df_adjusted = {Row("P1", "Choc", "L1", "A", R(10, 1), R(50, 1))}

\* C8 amended: in the scenario L1 gets 10 hours and 50 kg, the fallback line
\* covers the other 50 kg, and L1, having a rate for A, is the one eligible line:
\* the 50 kg are added to it, so the final AllocationTable has L1 at 20 hours and
\* 100 kg and nothing is left as a gap.
C8_ShortfallAddedToL1 ==
  (Returned /\ passed = C8_Scenario) =>
    /\ results_df = <<Row("P1", "Choc", "L1", "A", R(10, 1), R(50, 1)),
                      Row("P1", "Choc", fallback_name, "A", R(5000, 1), R(50, 1))>>
    /\ adjusted_rows = <<Row("P1", "Choc", "L1", "A", R(10, 1), R(50, 1))>>
    /\ results_df_adjusted = {Row("P1", "Choc", "L1", "A", R(20, 1), R(100, 1))}

C8_Witness == Returned /\ passed = C8_Scenario /\ adjusted_rows # <<>>

C9_Scenario ==
  [demand |-> (<<"P1", "Choc", "A">> :> R(100, 1)),
   line_capacity |-> (<<"P1", "Choc", "L1">> :> R(10, 1) @@ <<"P1", "Choc", "L2">> :> R(10, 1)),
   production_rate |-> (<<"P1", "Choc", "L1", "A">> :> R(5, 1)
                        @@ <<"P1", "Choc", "L2", "A">> :> R(5, 1))]

\* C9: in the scenario the solution has 10 hours on each of L1 and L2, 100 kg
\* produced, and no hours on the fallback line: no fallback row in the
\* RawAllocationTable.
C9_BothLinesFull ==
  (Returned /\ passed = C9_Scenario) =>
    /\ model.X[<<"P1", "Choc", "L1", "A">>] = R(10, 1)
    /\ model.X[<<"P1", "Choc", "L2", "A">>] = R(10, 1)
    /\ model.X[<<"P1", "Choc", fictitious_line, "A">>] = Zero
    /\ results_df = <<Row("P1", "Choc", "L1", "A", R(10, 1), R(50, 1)),
                      Row("P1", "Choc", "L2", "A", R(10, 1), R(50, 1))>>
    /\ ColumnSum(results_df, LAMBDA row : TRUE, LAMBDA row : row.Kg_Produced) = R(100, 1)

C9_Witness == Returned /\ passed = C9_Scenario /\ Len(results_df) = 2

\* C10: the UtilizationTable has no row for the fallback line, only rows for the
\* lines of the capacity mapping the caller built.
C10_NoFallbackInUtilization ==
  Returned =>
    \A r \in capacity_demand_ratio_df :
      /\ r.Line # fallback_name
      /\ <<r.Period, r.Category, r.Line>> \in DOMAIN given.line_capacity

\* the entries of a mapping whose line (component i of the key) is a real line
RealEntries(f, i) == [k \in {j \in DOMAIN f : j[i] # fictitious_line} |-> f[k]]

\* C11: after the augmentation of an invocation, line_capacity has a fallback-line
\* entry for every (period, category) of the demand, production_rate has a
\* fallback-line entry for every (period, category, product) of the demand, and
\* the real-line entries of both mappings are those that were passed: same keys,
\* same values.
C11_AugmenterFrame ==
  calls > 0 =>
    /\ \A k \in DOMAIN demand : <<k[1], k[2], fictitious_line>> \in DOMAIN line_capacity
    /\ \A k \in DOMAIN demand :
         <<k[1], k[2], fictitious_line, k[3]>> \in DOMAIN production_rate
    /\ RealEntries(line_capacity, 3) = RealEntries(passed.line_capacity, 3)
    /\ RealEntries(production_rate, 3) = RealEntries(passed.production_rate, 3)

\* an invocation was passed mappings with real-line entries and no fallback-line
\* entry, and extended both
C11_Witness ==
  /\ calls > 0
  /\ DOMAIN RealEntries(passed.line_capacity, 3) # {}
  /\ DOMAIN RealEntries(passed.production_rate, 3) # {}
  /\ DOMAIN passed.line_capacity = DOMAIN RealEntries(passed.line_capacity, 3)
  /\ DOMAIN passed.production_rate = DOMAIN RealEntries(passed.production_rate, 3)
  /\ DOMAIN line_capacity # DOMAIN passed.line_capacity
  /\ DOMAIN production_rate # DOMAIN passed.production_rate

\* the names of the real lines: the lines of the capacity mapping as passed
RealLines == {k[3] : k \in StatedKeys}

\* the real lines with a positive rate for (p, c, prod) in the rates as passed
PositiveRateLines(p, c, prod) ==
  {l \in RealLines : Pos(Get(passed.production_rate, <<p, c, l, prod>>, Zero))}

\* the rows of table df (a sequence) with the key of row, and with line l instead
RowsLike(df, row, l) ==
  SelectSeq(df, LAMBDA r : RowKey(r) = <<row.Period, row.Category, l, row.Product>>)

\* C12: for every fallback-line record of the RawAllocationTable whose (period,
\* category, product) has a real line of positive rate, the redistribution adds
\* for the record one row to each such line and none to any other line; the
\* row's mass is the record's mass divided by the number of these lines, and
\* its hours are that mass divided by the line's own rate.
C12_EqualSplit ==
  Returned =>
    \A i \in DOMAIN results_df :
      LET row == results_df[i]
          E == PositiveRateLines(row.Period, row.Category, row.Product)
          records == Len(RowsLike(results_df, row, fallback_name))
          share == Div(row.Kg_Produced, R(Cardinality(E), 1))
      IN  (IsFallback(row) /\ E # {}) =>
            \A l \in RealLines :
              LET added == RowsLike(adjusted_rows, row, l)
                  rate == Get(passed.production_rate,
                              <<row.Period, row.Category, l, row.Product>>, Zero)
              IN  IF l \in E
                  THEN /\ Len(added) = records
                       /\ \A j \in DOMAIN added :
                            /\ added[j].Kg_Produced = share
                            /\ added[j].Hours = Div(share, rate)
                  ELSE added = <<>>

\* the (period, category, product) keys the solver served on the fallback line
\* and for which no real line has a positive rate
GapKeys ==
  {key \in DOMAIN passed.demand :
     /\ Pos(model.X[<<key[1], key[2], fictitious_line, key[3]>>])
     /\ PositiveRateLines(key[1], key[2], key[3]) = {}}

\* C13: when the solver served a (period, category, product) on the fallback
\* line and no real line is eligible for it, the invocation returns its three
\* tables, the redistribution adds no row for the key, the final
\* AllocationTable has no hours or mass for it, and the RawAllocationTable that
\* is returned still has the fallback record, with the mass of the demand.
C13_GapKeptInRawTable ==
  Returned =>
    \A key \in GapKeys :
      /\ returns # <<>>
      /\ returns[Len(returns)].AllocationTable = results_df_adjusted
      /\ returns[Len(returns)].RawAllocationTable = results_df
      /\ \A i \in DOMAIN adjusted_rows :
           <<adjusted_rows[i].Period, adjusted_rows[i].Category, adjusted_rows[i].Product>> # key
      /\ \A row \in results_df_adjusted : <<row.Period, row.Category, row.Product>> # key
      /\ \E i \in DOMAIN returns[Len(returns)].RawAllocationTable :
           LET row == returns[Len(returns)].RawAllocationTable[i]
           IN  /\ IsFallback(row)
               /\ <<row.Period, row.Category, row.Product>> = key
               /\ row.Kg_Produced = passed.demand[key]
               /\ Pos(row.Kg_Produced)

\* the caller stated real lines, the list of eligible lines of a demanded
\* product served on the fallback line is empty, and the invocation returned
C13_Witness ==
  /\ Returned
  /\ RealLines # {}
  /\ \E key \in GapKeys :
       eligible_lines(production_rate, Lines(passed.line_capacity),
                      key[1], key[2], key[3]) = <<>>

\* C14: the realized-demand-hours behind the ratio of a (period, category, line)
\* are the sum of Hours of the AllocationTable rows of that period, category and
\* line, and the ratio is nan exactly when that sum is zero: rows of the same
\* line and period in another category do not enter it.
C14_RatioOwnCategory ==
  Returned =>
    \A r \in capacity_demand_ratio_df :
      LET hours == FinalHours(<<r.Period, r.Category, r.Line>>)
      IN  IF Pos(hours)
          THEN ~r.Capacity_Demand.nan /\ r.Capacity_Demand.total_demand_hours = hours
          ELSE r.Capacity_Demand.nan

====
